---- MODULE Spec2Model ----
(***************************************************************************)
(* Model of the FastAPI service of this repository: the users router       *)
(* (src/src/routers/users.py), the RAG stub router (src/src/routers/rag.py)*)
(* and the health endpoint of the composition root (src/src/main.py).      *)
(*                                                                         *)
(* The users table is a sequence of rows in storage order.  Every handler  *)
(* is an operator from (table, request) to (table', response), computed    *)
(* statement by statement as the handler computes it, and one action       *)
(* applies it.  The handlers are `async def` functions that call the       *)
(* synchronous Session API and never await, so inside one server process a *)
(* handler runs to completion: Spec takes each handler as one step.        *)
(* SpecRace takes create_user apart at its two database round trips, for   *)
(* requests served by different server processes over the same database.   *)
(***************************************************************************)
EXTENDS Integers, Sequences, FiniteSets, TLC

VARIABLES users, now, req, resp, pre, wk

vars == <<users, now, req, resp, pre, wk>>

(***************************************************************************)
(* Bounds of the model.                                                    *)
(***************************************************************************)
\* primary keys are 1..MaxId, so the table holds at most MaxId rows
MaxId == 2
\* the clock that stamps created_at / updated_at runs from 0 to MaxClock
MaxClock == 1
\* explicit skip values of a list request are 0..MaxSkip
MaxSkip == 2
\* explicit limit values of a list request are 0..MaxLimit
MaxLimit == 2

(***************************************************************************)
(* Program constants: the defaults of the handlers' parameters.            *)
(***************************************************************************)
DefaultSkip == 0
DefaultLimit == 100
DefaultTopK == 5

(***************************************************************************)
(* Input values.                                                           *)
(***************************************************************************)
Usernames == {"ann"}
Emails == {"a@x", "b@x"}
Questions == {"X", "why?"}
Ids == 1..MaxId
\* ids a request may name: every key, and 0, which is never a key
ReqIds == 0..MaxId
\* a query parameter or body field the request left out
Unset == -1
TopKs == {Unset, 0, 1, DefaultTopK}
Workers == {"w1", "w2"}

\* UserCreate: both fields required
UserCreate == [username : Usernames, email : Emails]

\* Python's None: the value of an Optional[str] field sent as null, and of a
\* column that holds NULL
None == "<None>"

\* UserUpdate.dict(exclude_unset=True): the supplied fields, in declaration
\* order, as (field, value) items; a field is Optional[str], so a supplied
\* value is a string or None
UserUpdate ==
    {<<>>}
      \cup {<< <<"username", u>> >> : u \in Usernames \cup {None}}
      \cup {<< <<"email", e>> >> : e \in Emails \cup {None}}
      \cup {<< <<"username", u>>, <<"email", e>> >> :
                u \in Usernames \cup {None}, e \in Emails \cup {None}}

(***************************************************************************)
(* The ORM calls the handlers make.                                        *)
(***************************************************************************)
\* db.query(User).filter(User.email == email)
filter_email(table, email) == SelectSeq(table, LAMBDA r : r.email = email)

\* db.query(User).filter(User.id == user_id)
filter_id(table, user_id) == SelectSeq(table, LAMBDA r : r.id = user_id)

\* Query.first(): the first row of the result, <<>> for None
first(rows) == IF rows = <<>> THEN <<>> ELSE <<Head(rows)>>

\* Query.offset(skip)
offset(rows, skip) == SubSeq(rows, skip + 1, Len(rows))

\* Query.limit(limit)
limit_(rows, limit) == SubSeq(rows, 1, IF limit < Len(rows) THEN limit ELSE Len(rows))

\* raise HTTPException(status_code=..., detail=...)
HTTPException(status_code, detail) ==
    [status |-> status_code, body |-> [detail |-> detail]]

\* a handler that returns: FastAPI answers 200 with the returned value
Ok(body) == [status |-> 200, body |-> body]

\* schemas.user.User: username and email are str, so a row that holds None in
\* either does not serialize
IsUserSchema(row) == row.username # None /\ row.email # None

\* the answer to a returned value that fails its response_model: the exception
\* has no handler, so the server answers 500 with the plain text
\* 'Internal Server Error' (not the JSON {"detail": ...} of an HTTPException)
ResponseValidationError == [status |-> 500, body |-> "Internal Server Error"]

\* response_model=UserSchema: the returned row is validated, then sent
UserResponse(row) == IF IsUserSchema(row) THEN Ok(row) ELSE ResponseValidationError

\* response_model=List[UserSchema]: every returned row is validated
UserListResponse(rows) ==
    IF \A i \in 1..Len(rows) : IsUserSchema(rows[i])
    THEN Ok(rows) ELSE ResponseValidationError

\* the key the store gives a new row: one more than the greatest key in the
\* table, which is the last row's (none once MaxId is reached)
FreeIds(table) ==
    LET last == IF table = <<>> THEN 0 ELSE table[Len(table)].id
    IN  IF last < MaxId THEN {last + 1} ELSE {}

\* User(**user.dict()) after db.add, db.commit, db.refresh: the payload's
\* fields, the generated key and both timestamps from the column defaults
NewUser(user, id, t) ==
    [id |-> id, username |-> user.username, email |-> user.email,
     created_at |-> t, updated_at |-> t]

\* the row after db.commit and db.refresh of an update; touch says whether
\* the store stamps updated_at on this commit
Refreshed(row, t, touch) ==
    IF touch THEN [row EXCEPT !.updated_at = t] ELSE row

(***************************************************************************)
(* src/src/routers/users.py                                                *)
(***************************************************************************)
get_users(table, skip, limit) ==
    [users |-> table, resp |-> UserListResponse(limit_(offset(table, skip), limit))]

\* mutant of create_query: the existence check made on the username
create_query_by_username(table, user) ==
    first(SelectSeq(table, LAMBDA r : r.username = user.username))

\* create_user, line 18: the existence query
create_query(table, user) == first(filter_email(table, user.email))

\* mutant of create_commit: the row is built and returned but never added
create_commit_noadd(table, user, id, t) ==
    [users |-> table, resp |-> UserResponse(NewUser(user, id, t))]

\* mutant of create_commit: the insert itself refuses an email a row holds
create_commit_unique(table, user, id, t) ==
    IF filter_email(table, user.email) # <<>>
    THEN [users |-> table, resp |-> HTTPException(400, "Email already registered")]
    ELSE [users |-> Append(table, NewUser(user, id, t)),
          resp |-> UserResponse(NewUser(user, id, t))]

\* create_user, lines 23-27: build the row, add, commit, refresh, return
create_commit(table, user, id, t) ==
    LET row == NewUser(user, id, t)
    IN  [users |-> Append(table, row), resp |-> UserResponse(row)]

create_user(table, user, id, t) ==
    LET db_user == create_query(table, user)
    IN  IF db_user # <<>>
        THEN [users |-> table,
              resp |-> HTTPException(400, "Email already registered")]
        ELSE create_commit(table, user, id, t)

\* mutant of get_user: the None check left out
get_user_nocheck(table, user_id) ==
    [users |-> table, resp |-> Ok(first(filter_id(table, user_id)))]

get_user(table, user_id) ==
    LET user == first(filter_id(table, user_id))
    IN  IF user = <<>>
        THEN [users |-> table, resp |-> HTTPException(404, "User not found")]
        ELSE [users |-> table, resp |-> UserResponse(user[1])]

\* for field, value in update_data.items(): setattr(user, field, value)
RECURSIVE setattrs(_, _)
setattrs(user, items) ==
    IF items = <<>> THEN user
    ELSE setattrs([user EXCEPT ![items[1][1]] = items[1][2]], Tail(items))

\* the row that replaces row user in the table
replace(table, user, row) ==
    [i \in 1..Len(table) |-> IF table[i].id = user.id THEN row ELSE table[i]]

\* user_update.dict() without exclude_unset: every field, None when left out
all_fields(update_data) ==
    LET value(f) == IF \E k \in 1..Len(update_data) : update_data[k][1] = f
                    THEN update_data[CHOOSE k \in 1..Len(update_data) :
                                         update_data[k][1] = f][2]
                    ELSE None
    IN  << <<"username", value("username")>>, <<"email", value("email")>> >>

\* mutant of update_user: the payload taken without exclude_unset
update_user_all_fields(table, user_id, update_data, t, touch) ==
    LET user == first(filter_id(table, user_id))
    IN  IF user = <<>>
        THEN [users |-> table, resp |-> HTTPException(404, "User not found")]
        ELSE LET row == Refreshed(setattrs(user[1], all_fields(update_data)), t, touch)
             IN  [users |-> replace(table, user[1], row), resp |-> UserResponse(row)]

update_user(table, user_id, update_data, t, touch) ==
    LET user == first(filter_id(table, user_id))
    IN  IF user = <<>>
        THEN [users |-> table, resp |-> HTTPException(404, "User not found")]
        ELSE LET row == Refreshed(setattrs(user[1], update_data), t, touch)
             IN  [users |-> replace(table, user[1], row), resp |-> UserResponse(row)]

\* mutant of delete_user: the delete is never committed
delete_user_nocommit(table, user_id) ==
    LET user == first(filter_id(table, user_id))
    IN  IF user = <<>>
        THEN [users |-> table, resp |-> HTTPException(404, "User not found")]
        ELSE [users |-> table, resp |-> Ok([message |-> "User deleted successfully"])]

delete_user(table, user_id) ==
    LET user == first(filter_id(table, user_id))
    IN  IF user = <<>>
        THEN [users |-> table, resp |-> HTTPException(404, "User not found")]
        ELSE [users |-> SelectSeq(table, LAMBDA r : r.id # user[1].id),
              resp |-> Ok([message |-> "User deleted successfully"])]

(***************************************************************************)
(* src/src/routers/rag.py                                                  *)
(***************************************************************************)
\* RAGQueryRequest: top_k defaults to 5 when the body leaves it out
RAGQueryRequest(question, top_k) ==
    [question |-> question, top_k |-> IF top_k = Unset THEN DefaultTopK ELSE top_k]

\* mutant of rag_query: the sources cut to the first top_k
rag_query_top_k(request) ==
    Ok([answer |-> "Answer to: " \o request.question,
        sources |-> limit_(<<"doc1", "doc2">>, request.top_k)])

rag_query(request) ==
    Ok([answer |-> "Answer to: " \o request.question, sources |-> <<"doc1", "doc2">>])

(***************************************************************************)
(* src/src/main.py                                                         *)
(***************************************************************************)
\* mutant of health_check: the exception of the round trip is not caught
health_check_uncaught(ok, msg, t) ==
    IF ok
    THEN Ok([status |-> "healthy", service |-> "fastapi-app",
             database |-> "connected", timestamp |-> t])
    ELSE [status |-> 500, body |-> "Internal Server Error"]

\* db.execute("SELECT 1") returns (ok) or raises an exception whose str() is msg
health_check(ok, msg, t) ==
    LET db_status == IF ok THEN "connected" ELSE "error: " \o msg
    IN  Ok([status |-> "healthy", service |-> "fastapi-app",
            database |-> db_status, timestamp |-> t])

(***************************************************************************)
(* State machine.                                                          *)
(*   users  the users table, in storage order                              *)
(*   now    the clock the column defaults read                             *)
(*   req    the request being answered ("none": the server is idle)        *)
(*   resp   the response to req                                            *)
(*   pre    the users table when the handler of req started                *)
(*   wk     per server process, its position in create_user (SpecRace)     *)
(***************************************************************************)
NoRequest == [op |-> "none"]
NoResponse == [status |-> 0, body |-> <<>>]
Idle == [pc |-> "idle", user |-> [username |-> "", email |-> ""], status |-> 0, raced |-> {}]

Init ==
    /\ users = <<>>
    /\ now = 0
    /\ req = NoRequest
    /\ resp = NoResponse
    /\ pre = <<>>
    /\ wk = [w \in Workers |-> Idle]

\* one request handled to completion by the idle server: r is the handler's result
Handled(request, r) ==
    /\ req = NoRequest
    /\ pre' = users
    /\ req' = request
    /\ users' = r.users
    /\ resp' = r.resp
    /\ UNCHANGED <<now, wk>>

\* the response is sent and the server takes the next request
Respond ==
    /\ req # NoRequest
    /\ req' = NoRequest
    /\ resp' = NoResponse
    /\ pre' = <<>>
    /\ UNCHANGED <<users, now, wk>>

Tick ==
    /\ req = NoRequest
    /\ now < MaxClock
    /\ now' = now + 1
    /\ UNCHANGED <<users, req, resp, pre, wk>>

ListUsers ==
    \E skip \in {Unset} \cup (0..MaxSkip), limit \in {Unset} \cup (0..MaxLimit) :
        Handled([op |-> "list", skip |-> skip, limit |-> limit],
                get_users(users,
                          IF skip = Unset THEN DefaultSkip ELSE skip,
                          IF limit = Unset THEN DefaultLimit ELSE limit))

\* the key is the store's choice; a request that stops at the existence check
\* never asks for one
CreateUser ==
    \E user \in UserCreate :
        \E id \in IF create_query(users, user) # <<>> THEN {0} ELSE FreeIds(users) :
            Handled([op |-> "create", user |-> user],
                    create_user(users, user, id, now))

GetUser ==
    \E user_id \in ReqIds :
        Handled([op |-> "get", user_id |-> user_id], get_user(users, user_id))

UpdateUser ==
    \E user_id \in ReqIds, update_data \in UserUpdate, touch \in BOOLEAN :
        Handled([op |-> "update", user_id |-> user_id, update_data |-> update_data],
                update_user(users, user_id, update_data, now, touch))

DeleteUser ==
    \E user_id \in ReqIds :
        Handled([op |-> "delete", user_id |-> user_id], delete_user(users, user_id))

RagQuery ==
    \E question \in Questions, top_k \in TopKs :
        Handled([op |-> "rag_query", question |-> question, top_k |-> top_k],
                [users |-> users, resp |-> rag_query(RAGQueryRequest(question, top_k))])

HealthCheck ==
    \E ok \in BOOLEAN, msg \in {"unreachable", "timeout"} :
        Handled([op |-> "health", ok |-> ok, msg |-> IF ok THEN "" ELSE msg],
                [users |-> users,
                 resp |-> health_check(ok, IF ok THEN "" ELSE msg, now)])

Next ==
    \/ Respond
    \/ Tick
    \/ ListUsers
    \/ CreateUser
    \/ GetUser
    \/ UpdateUser
    \/ DeleteUser
    \/ RagQuery
    \/ HealthCheck

Spec == Init /\ [][Next]_vars

(***************************************************************************)
(* create_user across server processes.  Each process runs one handler at  *)
(* a time; the database sees the existence query (line 18) and the commit  *)
(* (line 25) of different processes in any order.                          *)
(*   wk[w].pc     idle, checked (past line 20, before line 24) or done     *)
(*   wk[w].raced  the processes that were at checked, with the same email, *)
(*                while w was at checked in this request                   *)
(***************************************************************************)
\* a request is taken only while the store still has a key for it
RaceQuery(w) ==
    /\ wk[w].pc = "idle"
    /\ Len(users) + Cardinality({v \in Workers : wk[v].pc = "checked"}) < MaxId
    /\ \E user \in UserCreate :
          IF create_query(users, user) # <<>>
          THEN wk' = [wk EXCEPT ![w] = [pc |-> "done", user |-> user,
                                        status |-> 400, raced |-> {}]]
          ELSE LET peers == {v \in Workers \ {w} :
                                wk[v].pc = "checked" /\ wk[v].user.email = user.email}
               IN  wk' = [v \in Workers |->
                            IF v = w
                            THEN [pc |-> "checked", user |-> user,
                                  status |-> 0, raced |-> peers]
                            ELSE IF v \in peers
                                 THEN [wk[v] EXCEPT !.raced = @ \cup {w}]
                                 ELSE wk[v]]
    /\ UNCHANGED <<users, now, req, resp, pre>>

RaceCommit(w) ==
    /\ wk[w].pc = "checked"
    /\ \E id \in FreeIds(users) :
          LET r == create_commit(users, wk[w].user, id, now)
          IN  /\ users' = r.users
              /\ wk' = [wk EXCEPT ![w].pc = "done", ![w].status = r.resp.status]
    /\ UNCHANGED <<now, req, resp, pre>>

RaceReturn(w) ==
    /\ wk[w].pc = "done"
    /\ wk' = [wk EXCEPT ![w] = Idle]
    /\ UNCHANGED <<users, now, req, resp, pre>>

NextRace ==
    \/ Tick
    \/ \E w \in Workers : RaceQuery(w) \/ RaceCommit(w) \/ RaceReturn(w)

SpecRace == Init /\ [][NextRace]_vars

(***************************************************************************)
(* Properties.  Under Spec they are read in the state a handler leaves:    *)
(* req is the request, pre the table it found, users the table it left and *)
(* resp its response.                                                      *)
(***************************************************************************)
HasEmail(table, email) == \E i \in 1..Len(table) : table[i].email = email
HasId(table, id) == \E i \in 1..Len(table) : table[i].id = id
Supplied(items, f) == \E k \in 1..Len(items) : items[k][1] = f
ValueOf(items, f) == items[CHOOSE k \in 1..Len(items) : items[k][1] = f][2]
SharedEmail(table) ==
    \E i, j \in 1..Len(table) : i # j /\ table[i].email = table[j].email

\* C1: a create whose email a row of the table already holds is answered 400
\* 'Email already registered' and leaves the table as it was.
CreateDuplicateConflict ==
    (req.op = "create" /\ HasEmail(pre, req.user.email))
        => /\ resp = [status |-> 400, body |-> [detail |-> "Email already registered"]]
           /\ users = pre

CreateDuplicateSeen ==
    /\ req.op = "create"
    /\ HasEmail(pre, req.user.email)
    /\ \A i \in 1..Len(pre) : pre[i].username # req.user.username
    /\ resp.status = 400

\* C2: a create whose email no row holds is answered 200, appends exactly one
\* row with the payload's username and email, and returns that row with a key
\* no other row has and with created_at and updated_at both stamped.
CreateFreshSucceeds ==
    (req.op = "create" /\ ~HasEmail(pre, req.user.email))
        => /\ resp.status = 200
           /\ users = Append(pre, resp.body)
           /\ resp.body.username = req.user.username
           /\ resp.body.email = req.user.email
           /\ resp.body.id \in Ids
           /\ ~HasId(pre, resp.body.id)
           /\ resp.body.created_at = now
           /\ resp.body.updated_at = now

CreateFreshSeen ==
    /\ req.op = "create"
    /\ Len(pre) = 1
    /\ ~HasEmail(pre, req.user.email)
    /\ Len(users) = 2
    /\ resp.status = 200
    /\ now > 0

\* C3: get, update (any payload) and delete of an id no row has are answered
\* 404 'User not found' and leave the table as it was.
AbsentIdNotFound ==
    (req.op \in {"get", "update", "delete"} /\ ~HasId(pre, req.user_id))
        => /\ resp = [status |-> 404, body |-> [detail |-> "User not found"]]
           /\ users = pre

AbsentIdSeen ==
    /\ req.op = "get"
    /\ pre # <<>>
    /\ req.user_id \in Ids
    /\ ~HasId(pre, req.user_id)
    /\ resp.status = 404

\* C4: a delete of an existing id is answered 200 with the confirmation
\* message, removes that row and no other, and after it get, update and
\* delete of the same id are answered 404.
DeleteThenNotFound ==
    (req.op = "delete" /\ HasId(pre, req.user_id))
        => /\ resp = [status |-> 200, body |-> [message |-> "User deleted successfully"]]
           /\ ~HasId(users, req.user_id)
           /\ users = SelectSeq(pre, LAMBDA r : r.id # req.user_id)
           /\ Len(users) = Len(pre) - 1
           /\ get_user(users, req.user_id).resp.status = 404
           /\ delete_user(users, req.user_id).resp.status = 404
           /\ \A d \in UserUpdate, touch \in BOOLEAN :
                 update_user(users, req.user_id, d, now, touch).resp.status = 404

DeleteSeen ==
    /\ req.op = "delete"
    /\ Len(pre) = 2
    /\ HasId(pre, req.user_id)
    /\ resp.status = 200
    /\ Len(users) = 1

\* C5: an update of an existing id overwrites exactly the supplied fields of
\* that row with the supplied values (a string or null): its id, its
\* created_at, its unsupplied username or email and every other row stay; with
\* an empty payload nothing but updated_at can differ.
UpdateOnlySupplied ==
    (req.op = "update" /\ HasId(pre, req.user_id))
        => /\ Len(users) = Len(pre)
           /\ \A i \in 1..Len(pre) :
                 IF pre[i].id = req.user_id
                 THEN /\ users[i].id = pre[i].id
                      /\ users[i].created_at = pre[i].created_at
                      /\ \A f \in {"username", "email"} :
                            users[i][f] = IF Supplied(req.update_data, f)
                                          THEN ValueOf(req.update_data, f)
                                          ELSE pre[i][f]
                      /\ req.update_data = <<>>
                            => [users[i] EXCEPT !.updated_at = pre[i].updated_at] = pre[i]
                 ELSE users[i] = pre[i]

UpdateSeen ==
    /\ req.op = "update"
    /\ Len(pre) = 2
    /\ HasId(pre, req.user_id)
    /\ req.update_data = << <<"email", "b@x">> >>
    /\ \E i \in 1..Len(pre) :
          /\ pre[i].id = req.user_id
          /\ pre[i].email = "a@x"
          /\ users[i].email = "b@x"
          /\ users[i].username = pre[i].username
          /\ users[i].updated_at # pre[i].updated_at

\* C6: the health endpoint answers 200 with the health payload whether the
\* round trip to the store returned or raised; database is 'connected' exactly
\* when it returned and 'error: <message>' when it raised.
HealthAlways200 ==
    req.op = "health"
        => /\ resp.status = 200
           /\ resp.body.status = "healthy"
           /\ resp.body.service = "fastapi-app"
           /\ (resp.body.database = "connected") <=> req.ok
           /\ ~req.ok => resp.body.database = "error: " \o req.msg
           /\ users = pre

HealthFailureSeen ==
    /\ req.op = "health"
    /\ ~req.ok
    /\ resp.status = 200
    /\ resp.body.database = "error: unreachable"

\* C7: list with offset skip and page size limit answers 200, leaves the table
\* as it was and returns the rows at positions skip+1 .. skip+limit of the
\* storage order: at most limit rows, fewer when fewer are left, none when
\* skip is at or beyond the number of rows.
ListIsPage ==
    req.op = "list"
        => LET skip == IF req.skip = Unset THEN 0 ELSE req.skip
               limit == IF req.limit = Unset THEN 100 ELSE req.limit
               left == IF skip >= Len(pre) THEN 0 ELSE Len(pre) - skip
           IN  /\ resp.status = 200
               /\ users = pre
               /\ Len(resp.body) = IF limit < left THEN limit ELSE left
               /\ \A i \in 1..Len(resp.body) : resp.body[i] = pre[skip + i]

\* C8: the RAG query stub answers 200 with answer 'Answer to: ' followed by the
\* question and sources doc1, doc2, whatever top_k is and whether or not it is
\* supplied, and leaves the table as it was.
RagQueryEchoes ==
    req.op = "rag_query"
        => /\ resp.status = 200
           /\ resp.body.answer = "Answer to: " \o req.question
           /\ resp.body.sources = <<"doc1", "doc2">>
           /\ users = pre

RagQuerySeen ==
    /\ req.op = "rag_query"
    /\ req.question = "X"
    /\ req.top_k = 1
    /\ resp.body = [answer |-> "Answer to: X", sources |-> <<"doc1", "doc2">>]

\* C9: two creates with the same fresh email that both made the existence
\* query before either committed both succeed (200), and the table then holds
\* two rows with that email.
RaceBothSucceed ==
    \A v, w \in Workers :
        (v # w /\ wk[v].pc = "done" /\ wk[w].pc = "done"
             /\ w \in wk[v].raced /\ v \in wk[w].raced)
            => /\ wk[v].status = 200
               /\ wk[w].status = 200
               /\ Cardinality({i \in 1..Len(users) :
                                   users[i].email = wk[v].user.email}) >= 2

RaceSeen ==
    /\ wk["w1"].pc = "done"
    /\ wk["w2"].pc = "done"
    /\ "w2" \in wk["w1"].raced
    /\ "w1" \in wk["w2"].raced
    /\ Len(users) = 2
    /\ users[1].email = users[2].email

\* C10: an update that sets an existing user's email to the email a different
\* existing user holds is answered 200, never Conflict, and leaves two rows
\* with the same email.
UpdateAdmitsDuplicate ==
    (/\ req.op = "update"
     /\ HasId(pre, req.user_id)
     /\ Supplied(req.update_data, "email")
     /\ \E i \in 1..Len(pre) :
           /\ pre[i].id # req.user_id
           /\ pre[i].email = ValueOf(req.update_data, "email"))
        => /\ resp.status = 200
           /\ resp.body.email = ValueOf(req.update_data, "email")
           /\ \E i, j \in 1..Len(users) :
                 /\ users[i].id = req.user_id
                 /\ users[j].id # req.user_id
                 /\ users[i].email = users[j].email

====
